---- MODULE Spec2Model ----
(***************************************************************************)
(* Model of scripts/text_card_layers.py: BasicTextLayer and                *)
(* EmbeddedImageTextCardLayer.  A string is a sequence of one-character    *)
(* strings; indices passed between operators are Python's (0-based).       *)
(* A font handle is the size it was loaded at.  A ratio (a float in the     *)
(* source) is counted in quarters: the number q stands for the ratio q / 4. *)
(* A double holds such a ratio exactly, and with it every product, sum and  *)
(* half the source computes from it and from whole numbers of pixels, so    *)
(* the arithmetic below, in quarters and eighths, is the source's.          *)
(*                                                                          *)
(* Spec is one call of render on a constructed layer.  PadSpec is one call  *)
(* of _pad_embeddings on longer texts, its result kept as it is returned.   *)
(***************************************************************************)
EXTENDS Integers, Sequences, FiniteSets, TLC

VARIABLES self, pc, font_size, font, spacing, padded_text, embeddings,
          text_lines, embeds, multiline_text, text_box, loaded, out,
          v_offset, drawn_text, drawn_embeds

vars == <<self, pc, font_size, font, spacing, padded_text, embeddings,
          text_lines, embeds, multiline_text, text_box, loaded, out,
          v_offset, drawn_text, drawn_embeds>>

\* ------------------------------------------------------------------ bounds
\* longest input text, in characters
MaxLen == 3
\* longest text handed to _pad_embeddings on its own
PadMaxLen == 6

\* ------------------------------------------------------- program constants
STARTING_FONT_SIZE == 32
MIN_FONT_SIZE == 8

DEFAULT_FONT_WINDOWS == "\\Windows\\Fonts\\constan.ttf"
DEFAULT_FONT_MACOS == "/Library/Fonts/GeorgiaPro-CondLight.ttf"

WarnRow == "Warning: unable to fit text a row"
WarnBox == "Warning: failed to fit text in a box"

\* ------------------------------------------------------------ Python basics
Chars == {"a", "F", " ", "\n"}

\* str.isspace() on one character
IsSpace(c) == c \in {" ", "\n"}

\* s[i] for a 0-based i
At(s, i) == s[i + 1]

\* s[a:b] for 0 <= a, with Python's clamping of b
Slice(s, a, b) ==
    LET hi == IF b > Len(s) THEN Len(s) ELSE b
    IN  IF a >= hi THEN <<>> ELSE SubSeq(s, a + 1, hi)

\* int(n / d) for d > 0: Python's int() truncates toward zero
TruncDiv(n, d) == IF n >= 0 THEN n \div d ELSE -((-n) \div d)

Max(a, b) == IF a >= b THEN a ELSE b

\* s[start:].find('\n'): the offset of the first newline at or after start, or -1
RECURSIVE FindNewline(_, _, _)
FindNewline(s, start, k) ==
    IF start + k >= Len(s) THEN -1
    ELSE IF At(s, start + k) = "\n" THEN k
    ELSE FindNewline(s, start, k + 1)

\* word.strip(): leading and trailing whitespace removed
RECURSIVE Strip(_)
StripNone(w) == w
Strip(w) ==
    IF w = <<>> THEN w
    ELSE IF IsSpace(w[1]) THEN Strip(Tail(w))
    ELSE IF IsSpace(w[Len(w)]) THEN Strip(SubSeq(w, 1, Len(w) - 1))
    ELSE w

\* '\n'.join(lines)
RECURSIVE Join(_)
Join(lines) ==
    IF lines = <<>> THEN <<>>
    ELSE IF Len(lines) = 1 THEN lines[1]
    ELSE lines[1] \o <<"\n">> \o Join(Tail(lines))

\* ---------------------------------------------------------- glyph metrics
\* The font file is one proportional face: a letter advances by the font
\* size, a space by half of it, a newline by nothing.
Advance(f, c) ==
    IF c = " " THEN f \div 2 ELSE IF c = "\n" THEN 0 ELSE f

\* font.getlength(s), and draw.textsize(s, font)[0]
RECURSIVE GetLength(_, _)
GetLength(f, s) ==
    IF s = <<>> THEN 0 ELSE Advance(f, s[1]) + GetLength(f, Tail(s))

\* font.getbbox(' ')[3]
GetBBoxBottom(f) == f

\* draw.textsize(' ', font)[1]
LineHeight(f) == f

\* widest rendered line and number of rendered lines of a multi-line string
RECURSIVE WidestLine(_, _, _, _)
WidestLine(f, s, cur, best) ==
    IF s = <<>> THEN Max(cur, best)
    ELSE IF s[1] = "\n" THEN WidestLine(f, Tail(s), 0, Max(cur, best))
    ELSE WidestLine(f, Tail(s), cur + Advance(f, s[1]), best)

RECURSIVE CountNewlines(_)
CountNewlines(s) ==
    IF s = <<>> THEN 0
    ELSE (IF s[1] = "\n" THEN 1 ELSE 0) + CountNewlines(Tail(s))

\* draw.multiline_textbbox((0, 0), s, font, spacing=sp) as (x0, y0, x1, y1):
\* the ink starts a top bearing below the origin, every further line adds
\* the line height plus the spacing
MultilineTextBBox(f, s, sp) ==
    <<0, f \div 4, WidestLine(f, s, 0, 0),
      CountNewlines(s) * (f + sp) + f>>

\* ------------------------------------------------------------ Placement
Placement(x, y, w, h) == [x |-> x, y |-> y, w |-> w, h |-> h]

\* move_placement(dx, dy, p)
MovePlacement(dx, dy, p) == Placement(p.x + dx, p.y + dy, p.w, p.h)

\* CardLayer._move_box((0, 0), to_box(placement))
OuterBox(p) == <<0, 0, p.w, p.h>>

\* CardLayer._within_box(outer, inner)
WithinBox(outer, inner) ==
    /\ inner[3] - inner[1] <= outer[3] - outer[1]
    /\ inner[4] - inner[2] <= outer[4] - outer[2]

\* ------------------------------------------------- _find_next_fit_length
\* lines 292-300: one retreat, from end to the whitespace before the last word
RECURSIVE ScanLeft(_, _, _, _)
ScanLeft(text, start, end, char_seen) ==
    IF end > start
    THEN IF IsSpace(At(text, end))
         THEN IF char_seen THEN end
              ELSE ScanLeft(text, start, end - 1, char_seen)
         ELSE ScanLeft(text, start, end - 1, TRUE)
    ELSE end

\* lines 287-300: retreat while the candidate line is wider than the box
RECURSIVE FitEnd(_, _, _, _, _)
FitEnd(text, start, end, f, width_px) ==
    IF end > start /\ GetLength(f, Slice(text, start, end + 1)) > width_px
    THEN FitEnd(text, start, ScanLeft(text, start, end, FALSE), f, width_px)
    ELSE end

\* lines 283-284
FirstEnd(text, start) ==
    LET newline == FindNewline(text, start, 0)
    IN  IF newline # -1 THEN start + newline ELSE Len(text) - 1

FindNextFitLength(text, start, f, width_px) ==
    FitEnd(text, start, FirstEnd(text, start), f, width_px) - start + 1

\* `return self._text` where a list of lines is expected: the caller's
\* '\n'.join iterates the str, one character per element
TextAsLines(text) == [i \in 1..Len(text) |-> <<text[i]>>]

\* ------------------------------------ BasicTextLayer._split_lines_to_width
RECURSIVE SplitLoop(_, _, _, _, _)
\* lines 71-76
SplitStep(text, index, lines, f, width_px, length) ==
    IF length = 0
    THEN [lines |-> TextAsLines(text), out |-> <<WarnRow>>]
    ELSE SplitLoop(text, index + length,
                   Append(lines, Slice(text, index, index + length)),
                   f, width_px)

\* lines 68-78
SplitLoop(text, index, lines, f, width_px) ==
    IF index < Len(text)
    THEN SplitStep(text, index, lines, f, width_px,
                   FindNextFitLength(text, index, f, width_px))
    ELSE [lines |-> lines, out |-> <<>>]

SplitLinesToWidth(s, f) == SplitLoop(s.text, 0, <<>>, f, s.placement.w)

\* ----------------------------------------------------------- image provider
\* image_provider.get_image(embed_file): the natural size of each image
ImageSize(embed_file) ==
    IF embed_file = "wide" THEN [width |-> 128, height |-> 64]
    ELSE [width |-> 64, height |-> 64]

Spaces(n) == [i \in 1..n |-> " "]

\* ----------------------------- EmbeddedImageTextCardLayer._get_padding_str
\* lines 265-267: spaces are added while the padding is narrower than
\* target_width = (width / height) * height_px
RECURSIVE PadCount(_, _, _)
PadCount(img, f, n) ==
    IF GetLength(f, Spaces(n)) * img.height < img.width * LineHeight(f)
    THEN PadCount(img, f, n + 1)
    ELSE n

\* The padding widths p up to 1024 for which the double 64 / (64 / p) comes
\* out just below p.  The images' widths are powers of two, for which the
\* rounding of width / p, and so this set, is the same.
FloatShortfall ==
    {93, 99, 105, 117, 123, 186, 198, 210, 211, 221, 227, 234, 243, 245,
     246, 372, 391, 393, 396, 415, 420, 422, 442, 445, 454, 459, 468, 483,
     486, 489, 490, 492, 497, 744, 773, 782, 786, 791, 792, 830, 840, 843,
     844, 875, 883, 884, 889, 890, 891, 905, 908, 918, 936, 937, 939, 943,
     945, 955, 957, 961, 966, 967, 972, 978, 980, 981, 984, 987, 994, 995,
     1017}

\* int(n / w_ratio) with w_ratio = width / pad_w, both divisions in doubles
\* (lines 269-270): the quotient is n * pad_w / width, except that for the
\* widths above it falls just short of it, and int() then loses a pixel
\* where the exact quotient is a whole number
FloatQuotient(n, width, pad_w) ==
    IF pad_w \in FloatShortfall /\ (n * pad_w) % width = 0
    THEN TruncDiv(n * pad_w, width) - 1
    ELSE TruncDiv(n * pad_w, width)

\* (padding, (int(width / w_ratio), int(height / w_ratio))) with
\* w_ratio = width / textsize(padding)[0]
GetPaddingStr(embed_file, f) ==
    LET img == ImageSize(embed_file)
        padding == Spaces(PadCount(img, f, 1))
        pad_w == GetLength(f, padding)
    IN  [padding |-> padding,
         size |-> <<FloatQuotient(img.width, img.width, pad_w),
                    FloatQuotient(img.height, img.width, pad_w)>>]

\* ------------------------------ EmbeddedImageTextCardLayer._next_word_index
RECURSIVE SkipWhile(_, _, _)
SkipWhile(text, start, space) ==
    IF start < Len(text) /\ IsSpace(At(text, start)) = space
    THEN SkipWhile(text, start + 1, space)
    ELSE start

NextWordIndex(text, start) ==
    SkipWhile(text, SkipWhile(text, start, FALSE), TRUE)

\* str.replace(old, new) for a non-empty old: every occurrence, left to right
RECURSIVE Replace(_, _, _)
Replace(s, old, new) ==
    IF Len(s) < Len(old) THEN s
    ELSE IF SubSeq(s, 1, Len(old)) = old
         THEN new \o Replace(SubSeq(s, Len(old) + 1, Len(s)), old, new)
         ELSE <<s[1]>> \o Replace(Tail(s), old, new)

\* line 225: the offset recorded for an embed
EmbedOffset(index, total_padding) == index + total_padding

\* lines 231-232: the length drift of the replacements made so far
TotalPaddingLast(total_padding, replacement_text, word) == Len(replacement_text) - Len(word)
TotalPadding(total_padding, replacement_text, word) == total_padding + Len(replacement_text) - Len(word)

\* ------------------------------ EmbeddedImageTextCardLayer._pad_embeddings
\* lines 224-232: the loop's locals after a word that is an embedding token;
\* p is _get_padding_str's result
PadHit(text, st, next, word, embedding, p, replacement_text) ==
    [index |-> next,
     total_padding |-> TotalPadding(st.total_padding, replacement_text, word),
     last_index |-> next,
     embeddings |-> Append(st.embeddings,
                      <<EmbedOffset(st.index, st.total_padding),
                        embedding, p.size>>),
     new_text |-> st.new_text \o Slice(text, st.last_index, st.index)
                  \o replacement_text]

\* lines 224-227
PadToken(text, f, st, next, word, key, embedding, p) ==
    PadHit(text, st, next, word, embedding, p, Replace(word, key, p.padding))

\* lines 222-234: key is word.strip()
PadWord(text, map, f, st, next, word, key) ==
    IF key \in DOMAIN map
    THEN PadToken(text, f, st, next, word, key, map[key],
                  GetPaddingStr(map[key], f))
    ELSE [st EXCEPT !.index = next]

\* lines 219-220
PadNext(text, map, f, st, next) ==
    PadWord(text, map, f, st, next, Slice(text, st.index, next),
            Strip(Slice(text, st.index, next)))

\* lines 218-234, st = the loop's locals
RECURSIVE PadLoop(_, _, _, _)
PadLoop(text, map, f, st) ==
    IF st.index < Len(text)
    THEN PadLoop(text, map, f,
                 PadNext(text, map, f, st, NextWordIndex(text, st.index)))
    ELSE st

\* lines 236-239
PadResult(text, st) ==
    [padded_text |-> IF st.last_index # st.index
                     THEN st.new_text \o Slice(text, st.last_index, st.index)
                     ELSE st.new_text,
     embeddings |-> st.embeddings]

PadEmbeddings(s, f) ==
    PadResult(s.text,
              PadLoop(s.text, s.embedding_map, f,
                      [index |-> 0, total_padding |-> 0, last_index |-> 0,
                       embeddings |-> <<>>, new_text |-> <<>>]))

\* embeddings.sort(key=lambda ei: ei[0]): a stable insertion sort by offset
RECURSIVE InsertByOffset(_, _)
InsertByOffset(sorted, e) ==
    IF sorted = <<>> THEN <<e>>
    ELSE IF sorted[Len(sorted)][1] <= e[1] THEN Append(sorted, e)
    ELSE Append(InsertByOffset(SubSeq(sorted, 1, Len(sorted) - 1), e),
                sorted[Len(sorted)])

RECURSIVE SortByOffset(_)
SortByOffset(es) ==
    IF es = <<>> THEN <<>>
    ELSE InsertByOffset(SortByOffset(SubSeq(es, 1, Len(es) - 1)), es[Len(es)])

\* ----------------- EmbeddedImageTextCardLayer._split_lines_and_place_embeds
\* lines 175-198: the placement of one embed on the line starting at i_text
PlaceEmbed(s, f, sp, padded, i_text, n_lines, embed) ==
    LET embed_size == embed[3]
        line_height == LineHeight(f)
        line_and_spacing_height == line_height + sp
        shrink == embed_size[2] * (4 - s.embed_size_ratio)
        x == TruncDiv(8 * (s.placement.x
                             + GetLength(f, Slice(padded, i_text, embed[1])))
                      + shrink, 8)
        y == TruncDiv(8 * (s.placement.y + n_lines * line_and_spacing_height)
                      + 2 * line_height * s.embed_v_offset_ratio
                      + shrink, 8)
        w == TruncDiv(embed_size[1] * s.embed_size_ratio, 4)
        h == TruncDiv(embed_size[2] * s.embed_size_ratio, 4)
    IN  [place |-> Placement(x, y, w, h), image_id |-> embed[2]]

\* lines 174-200
RECURSIVE PlaceLoop(_, _, _, _, _, _, _, _, _)
PlaceLoop(s, f, sp, padded, es, i_text, length, n_lines, st) ==
    IF st.i_embeddings < Len(es) /\ At(es, st.i_embeddings)[1] < i_text + length
    THEN PlaceLoop(s, f, sp, padded, es, i_text, length, n_lines,
           [i_embeddings |-> st.i_embeddings + 1,
            embeds |-> Append(st.embeds,
                         PlaceEmbed(s, f, sp, padded, i_text, n_lines,
                                    At(es, st.i_embeddings)))])
    ELSE st

\* lines 174-203: the loop's locals after a line of the given length; placed
\* is the result of the inner while loop
LineTaken(padded, st, length, placed) ==
    [i_text |-> st.i_text + length,
     i_embeddings |-> placed.i_embeddings,
     embeds |-> placed.embeds,
     lines |-> Append(st.lines, Slice(padded, st.i_text, st.i_text + length))]

RECURSIVE EmbedSplitLoop(_, _, _, _, _, _)
\* lines 170-203
EmbedSplitStep(s, f, sp, padded, es, st, length) ==
    IF length = 0
    THEN [lines |-> TextAsLines(s.text), embeds |-> <<>>, out |-> <<WarnRow>>]
    ELSE EmbedSplitLoop(s, f, sp, padded, es,
           LineTaken(padded, st, length,
                     PlaceLoop(s, f, sp, padded, es, st.i_text, length,
                               Len(st.lines),
                               [i_embeddings |-> st.i_embeddings,
                                embeds |-> st.embeds])))

\* lines 166-205
EmbedSplitLoop(s, f, sp, padded, es, st) ==
    IF st.i_text < Len(padded)
    THEN EmbedSplitStep(s, f, sp, padded, es, st,
           FindNextFitLength(padded, st.i_text, f, s.placement.w))
    ELSE [lines |-> st.lines, embeds |-> st.embeds, out |-> <<>>]

\* lines 172 / 205, together with the padded text and the sorted embeddings
SplitResult(padded, es, r) ==
    [lines |-> r.lines, embeds |-> r.embeds, out |-> r.out,
     padded_text |-> padded, embeddings |-> es]

\* lines 163-205: es is the sorted list of embeddings
SplitSorted(s, f, sp, padded, es) ==
    SplitResult(padded, es,
                EmbedSplitLoop(s, f, sp, padded, es,
                               [i_text |-> 0, i_embeddings |-> 0,
                                embeds |-> <<>>, lines |-> <<>>]))

\* lines 161-163
SplitPadded(s, f, sp, p) ==
    SplitSorted(s, f, sp, p.padded_text, SortByOffset(p.embeddings))

SplitLinesAndPlaceEmbeds(s, f, sp) ==
    SplitPadded(s, f, sp, PadEmbeddings(s, f))

\* ------------------------------------------------------------ _get_v_offset
GetVOffsetBoxHeight(v_alignment, text_bbox, text_placement) ==
    IF v_alignment = "MIDDLE"
    THEN TruncDiv(text_placement.h - (text_bbox[4] - text_bbox[2]), 2)
    ELSE IF v_alignment = "BOTTOM"
    THEN text_placement.h - (text_bbox[4] - text_bbox[2])
    ELSE 0

GetVOffset(v_alignment, text_bbox, text_placement) ==
    IF v_alignment = "MIDDLE"
    THEN TruncDiv(text_placement.h - text_bbox[4], 2)
    ELSE IF v_alignment = "BOTTOM"
    THEN text_placement.h - text_bbox[4]
    ELSE 0

\* ------------------------------------------------------------- constructors
\* `value or default`: None and 0 both select the default
OrDefault(value, default) == IF value = 0 THEN default ELSE value

\* the exception _get_default_font_file raises
NoDefaultFont == "No default font known for OS."

\* _get_default_font_file, platform being sys.platform
GetDefaultFontFile(platform) ==
    IF platform = "win32" THEN DEFAULT_FONT_WINDOWS
    ELSE IF platform = "darwin" THEN DEFAULT_FONT_MACOS
    ELSE NoDefaultFont

\* `font_file or _get_default_font_file()` (line 34 / 106): the default is
\* looked up only when no font file is given
FontFileOrDefault(font_file, platform) ==
    IF font_file = "" THEN GetDefaultFontFile(platform) ELSE font_file

\* BasicTextLayer.__init__ run where sys.platform is platform (the embed
\* fields are not read by this layer); when the exception is raised there is
\* no layer, and font_file holds the exception
BasicTextLayer(text, placement, max_font_size, font_file, spacing_ratio, v_alignment, platform) ==
    [kind |-> "basic", text |-> text, placement |-> placement,
     max_font_size |-> max_font_size,
     starting_font_size |-> OrDefault(max_font_size, STARTING_FONT_SIZE),
     font_file |-> FontFileOrDefault(font_file, platform),
     spacing_ratio |-> OrDefault(spacing_ratio, 0),
     v_alignment |-> v_alignment,
     embedding_map |-> <<>>, embed_v_offset_ratio |-> 0,
     embed_size_ratio |-> 4]

\* EmbeddedImageTextCardLayer.__init__ run where sys.platform is platform
EmbeddedImageTextCardLayer(text, placement, embedding_map, max_font_size, font_file, spacing_ratio, v_alignment, embed_v_offset_ratio, embed_size_ratio, platform) ==
    [kind |-> "embedded", text |-> text, placement |-> placement,
     max_font_size |-> max_font_size,
     starting_font_size |-> OrDefault(max_font_size, STARTING_FONT_SIZE),
     font_file |-> FontFileOrDefault(font_file, platform),
     spacing_ratio |-> OrDefault(spacing_ratio, 0),
     v_alignment |-> v_alignment,
     embedding_map |-> embedding_map,
     embed_v_offset_ratio |-> OrDefault(embed_v_offset_ratio, 0),
     embed_size_ratio |-> OrDefault(embed_size_ratio, 4)]

\* __init__ raised: no layer was constructed
Raised(layer) == layer.font_file = NoDefaultFont

\* ------------------------------------------------------------------ inputs
Texts == UNION {[1..n -> Chars] : n \in 1..MaxLen}

\* too narrow for one letter at any size; room for a short line at the
\* smallest sizes; room for two lines at the default size
Placements == {Placement(0, 0, 5, 40), Placement(2, 3, 20, 12),
               Placement(1, 1, 64, 70)}

\* a size or ratio of 0, and a font file of "", is "not given"; the ratios
\* are in quarters
MaxFontSizes == {7, 10}
SpacingRatios == {0, 2}
Alignments == {"TOP", "MIDDLE", "BOTTOM"}
EmbeddingMaps == {(<<"F">> :> "sq"),
                  (<<"F">> :> "wide") @@ (<<"F", "F">> :> "sq")}
Platforms == {"win32", "darwin", "linux"}
FontFile == "font.ttf"

\* the layer is built with every optional argument left out, which gives a
\* layer on the platforms that have a default font and raises on the others,
\* or with a font cap, a font file, a spacing ratio, an alignment and
\* (embedded) embed ratios, on any platform
Constructed ==
    /\ \E t \in Texts, p \in Placements, pf \in Platforms :
        \/ self = BasicTextLayer(t, p, 0, "", 0, "TOP", pf)
        \/ \E em \in EmbeddingMaps :
               self = EmbeddedImageTextCardLayer(t, p, em, 0, "", 0, "TOP",
                                                 0, 0, pf)
        \/ \E m \in MaxFontSizes, sr \in SpacingRatios, al \in Alignments :
               \/ self = BasicTextLayer(t, p, m, FontFile, sr, al, pf)
               \/ \E em \in EmbeddingMaps :
                      self = EmbeddedImageTextCardLayer(t, p, em, m, FontFile,
                                                        sr, al, 1, 2, pf)
    /\ ~Raised(self)

\* ----------------------------------------------------------- state machine
\* render has been called and stands before its while loop
Init ==
    /\ Constructed
    /\ pc = "loop"
    /\ font_size = self.starting_font_size
    /\ font = 0
    /\ spacing = 0
    /\ padded_text = <<>>
    /\ embeddings = <<>>
    /\ text_lines = <<>>
    /\ embeds = <<>>
    /\ multiline_text = <<>>
    /\ text_box = <<0, 0, 0, 0>>
    /\ loaded = <<>>
    /\ out = <<>>
    /\ v_offset = 0
    /\ drawn_text = <<>>
    /\ drawn_embeds = <<>>

\* the sizes loaded so far (ImageFont.truetype, line 44 / 118) are kept in
\* `loaded`

\* line 51 / 134
NextFontSizeSkip(fs) == fs - 2
NextFontSize(fs) == fs - 1

\* line 52 / 135
BelowFloorOff(fs) == fs < MIN_FONT_SIZE - 1
BelowFloor(fs) == fs < MIN_FONT_SIZE

\* lines 49-54 / 131-137: accept the fit, or shrink and stop below the floor
LoopExit(box, printed) ==
    IF WithinBox(OuterBox(self.placement), box)
    THEN /\ pc' = "draw"
         /\ font_size' = font_size
         /\ out' = out \o printed
    ELSE /\ font_size' = NextFontSize(font_size)
         /\ IF BelowFloor(font_size')
            THEN /\ out' = out \o printed \o <<WarnBox>>
                 /\ pc' = "draw"
            ELSE /\ out' = out \o printed
                 /\ pc' = "loop"

\* lines 46-54: r is _split_lines_to_width's result
BasicLayout(r) ==
    /\ text_lines' = r.lines
    /\ multiline_text' = Join(r.lines)
    /\ text_box' = MultilineTextBBox(font', multiline_text', spacing')
    /\ LoopExit(text_box', r.out)

\* BasicTextLayer.render, one pass of the while loop (lines 43-54)
BasicRenderIteration ==
    /\ pc = "loop"
    /\ self.kind = "basic"
    /\ font' = font_size
    /\ spacing' = TruncDiv(GetBBoxBottom(font') * self.spacing_ratio, 4)
    /\ BasicLayout(SplitLinesToWidth(self, font'))
    /\ loaded' = Append(loaded, font')
    /\ UNCHANGED <<self, padded_text, embeddings, embeds, v_offset,
                   drawn_text, drawn_embeds>>

\* BasicTextLayer.render, lines 56-63
BasicDraw ==
    /\ pc = "draw"
    /\ self.kind = "basic"
    /\ v_offset' = GetVOffset(self.v_alignment, text_box, self.placement)
    /\ drawn_text' = <<[xy |-> <<self.placement.x, self.placement.y + v_offset'>>,
                        text |-> multiline_text, font |-> font,
                        spacing |-> spacing]>>
    /\ pc' = "done"
    /\ UNCHANGED <<self, font_size, font, spacing, padded_text, embeddings,
                   text_lines, embeds, multiline_text, text_box, loaded,
                   out, drawn_embeds>>

\* lines 121-137: r is _split_lines_and_place_embeds's result
EmbeddedLayout(r) ==
    /\ padded_text' = r.padded_text
    /\ embeddings' = r.embeddings
    /\ text_lines' = r.lines
    /\ embeds' = r.embeds
    /\ multiline_text' = Join(r.lines)
    /\ text_box' = MultilineTextBBox(font', multiline_text', spacing')
    /\ LoopExit(text_box', r.out)

\* EmbeddedImageTextCardLayer.render, one pass of the while loop (lines 117-137)
EmbeddedRenderIteration ==
    /\ pc = "loop"
    /\ self.kind = "embedded"
    /\ font' = font_size
    /\ spacing' = TruncDiv(self.spacing_ratio * GetBBoxBottom(font'), 4)
    /\ EmbeddedLayout(SplitLinesAndPlaceEmbeds(self, font', spacing'))
    /\ loaded' = Append(loaded, font')
    /\ UNCHANGED <<self, v_offset, drawn_text, drawn_embeds>>

\* EmbeddedImageTextCardLayer.render, lines 139-148, with _render_embeds
EmbeddedDraw ==
    /\ pc = "draw"
    /\ self.kind = "embedded"
    /\ v_offset' = GetVOffset(self.v_alignment, text_box, self.placement)
    /\ drawn_text' = <<[xy |-> <<self.placement.x, self.placement.y + v_offset'>>,
                        text |-> multiline_text, font |-> font,
                        spacing |-> spacing]>>
    /\ LET embed_v_offset ==
               TruncDiv(self.embed_v_offset_ratio * GetBBoxBottom(font), 4)
       IN  drawn_embeds' =
               [i \in 1..Len(embeds) |->
                   [image_id |-> embeds[i].image_id,
                    place |-> MovePlacement(0, v_offset' + embed_v_offset,
                                            embeds[i].place)]]
    /\ pc' = "done"
    /\ UNCHANGED <<self, font_size, font, spacing, padded_text, embeddings,
                   text_lines, embeds, multiline_text, text_box, loaded,
                   out>>

Next ==
    \/ BasicRenderIteration
    \/ BasicDraw
    \/ EmbeddedRenderIteration
    \/ EmbeddedDraw

Spec == Init /\ [][Next]_vars

\* ------------------------------------------- _pad_embeddings on its own
PadTexts == UNION {[1..n -> Chars] : n \in 1..PadMaxLen}

\* a font below the floor (a cap of 7), at the floor and at the default size
PadFontSizes == {7, 8, STARTING_FONT_SIZE}

\* an embedded layer stands before a call of _pad_embeddings
PadInit ==
    /\ \E t \in PadTexts, em \in EmbeddingMaps :
           self = EmbeddedImageTextCardLayer(t, Placement(1, 1, 64, 70), em,
                                             0, FontFile, 0, "TOP", 0, 0,
                                             "linux")
    /\ pc = "pad"
    /\ font_size = self.starting_font_size
    /\ font = 0
    /\ spacing = 0
    /\ padded_text = <<>>
    /\ embeddings = <<>>
    /\ text_lines = <<>>
    /\ embeds = <<>>
    /\ multiline_text = <<>>
    /\ text_box = <<0, 0, 0, 0>>
    /\ loaded = <<>>
    /\ out = <<>>
    /\ v_offset = 0
    /\ drawn_text = <<>>
    /\ drawn_embeds = <<>>

\* _pad_embeddings(draw, font), lines 209-239, with the font loaded at one of
\* the sizes: padded_text and embeddings are the pair it returns (line 239),
\* the records in the order they were appended, before any caller sorts them
PadEmbeddingsCall ==
    /\ pc = "pad"
    /\ \E f \in PadFontSizes : font' = f
    /\ padded_text' = PadEmbeddings(self, font').padded_text
    /\ embeddings' = PadEmbeddings(self, font').embeddings
    /\ pc' = "padded"
    /\ UNCHANGED <<self, font_size, spacing, text_lines, embeds,
                   multiline_text, text_box, loaded, out, v_offset,
                   drawn_text, drawn_embeds>>

PadSpec == PadInit /\ [][PadEmbeddingsCall]_vars

\* =================================================================== claims
Range(q) == {q[i] : i \in 1..Len(q)}
Min(a, b) == IF a <= b THEN a ELSE b

\* a layout has been computed
Laid == loaded # <<>>

\* the search is over
Stopped == pc \in {"draw", "done"}

\* the text handed to the line-splitting loop
SplitText == IF self.kind = "basic" THEN self.text ELSE padded_text

\* 0-based offset in SplitText of the first character of line k
RECURSIVE LineStart(_)
LineStart(k) == IF k = 1 THEN 0 ELSE LineStart(k - 1) + Len(text_lines[k - 1])

\* the line whose character range contains the 0-based offset o
LineOf(o) ==
    CHOOSE k \in 1..Len(text_lines) :
        LineStart(k) <= o /\ o < LineStart(k) + Len(text_lines[k])

\* box width <= placement width and box height <= placement height
FitsPlacement(box) ==
    /\ box[3] - box[1] <= self.placement.w
    /\ box[4] - box[2] <= self.placement.h

\* the spacing and the measured box of the layout computed at size s
SpacingAt(s) == (s * self.spacing_ratio) \div 4
LinesAt(s) ==
    IF self.kind = "basic" THEN SplitLinesToWidth(self, s).lines
    ELSE SplitLinesAndPlaceEmbeds(self, s, SpacingAt(s)).lines
BoxAt(s) == MultilineTextBBox(s, Join(LinesAt(s)), SpacingAt(s))

\* the lines partition the text that was split
LinesPartitionText ==
    Laid => /\ \A k \in 1..Len(text_lines) : text_lines[k] # <<>>
            /\ \A k \in 1..Len(text_lines) :
                 text_lines[k] = Slice(SplitText, LineStart(k),
                                       LineStart(k) + Len(text_lines[k]))
            /\ LineStart(Len(text_lines)) + Len(text_lines[Len(text_lines)])
                 = Len(SplitText)

\* C1: no boundary between two consecutive produced lines falls between two
\* adjacent non-whitespace characters of the text that was split.
C1_NoWordSplit ==
    Laid => \A k \in 1..(Len(text_lines) - 1) :
                ~ (/\ ~IsSpace(text_lines[k][Len(text_lines[k])])
                   /\ ~IsSpace(text_lines[k + 1][1]))

\* the scan offset i is one where the retreat came back to i and even the
\* single character left there is wider than the placement
RowOverflowAt(i) ==
    /\ FirstEnd(SplitText, i) > i
    /\ FitEnd(SplitText, i, FirstEnd(SplitText, i), font, self.placement.w) = i
    /\ GetLength(font, Slice(SplitText, i, i + 1)) > self.placement.w

RowOverflow == \E k \in 1..Len(text_lines) : RowOverflowAt(LineStart(k))

\* C2: when the text at a scan offset cannot be broken to fit the width, the
\* diagnostic is printed and the layout is the unsplit original text as one
\* line; otherwise every produced line is non-empty.
C2_RowOverflowFallsBack ==
    Laid => IF RowOverflow
            THEN WarnRow \in Range(out) /\ text_lines = <<self.text>>
            ELSE \A k \in 1..Len(text_lines) : text_lines[k] # <<>>

\* C3: when the search stops by accepting a fit, the accepted size is at
\* most the cap, its layout fits the placement, and the layout of every
\* larger size up to the cap does not fit.
C3_LargestFittingSize ==
    (Stopped /\ WarnBox \notin Range(out)) =>
        /\ font <= self.starting_font_size
        /\ FitsPlacement(text_box)
        /\ text_box = BoxAt(font)
        /\ \A s \in (font + 1)..self.starting_font_size :
               ~FitsPlacement(BoxAt(s))

C3_Witness ==
    /\ pc = "done"
    /\ WarnBox \notin Range(out)
    /\ font < self.starting_font_size
    /\ Len(text_lines) > 1

\* C4: the joined multi-line string holds one line break for each explicit
\* newline of the source text, besides the breaks of the wrapped lines (the
\* line boundaries that do not follow an explicit newline).
C4_NewlinesNotDuplicated ==
    Laid => CountNewlines(multiline_text)
              = CountNewlines(self.text)
                + Cardinality({k \in 1..(Len(text_lines) - 1) :
                                 text_lines[k][Len(text_lines[k])] # "\n"})

\* the search ended without accepting a fit: the size was lowered after the
\* last load
GaveUp == Stopped /\ font_size < font

\* the sizes loaded go down by one from the starting size
LoadedDescends ==
    /\ Laid => loaded[1] = self.starting_font_size
    /\ \A i \in 1..(Len(loaded) - 1) : loaded[i + 1] = loaded[i] - 1

\* the final draw uses the text, font and spacing of the attempt at size s
DrawUsesAttempt(s) ==
    pc = "done" =>
        /\ drawn_text[1].font = s
        /\ drawn_text[1].text = Join(LinesAt(s))
        /\ drawn_text[1].spacing = SpacingAt(s)

\* C5 as stated: the sizes loaded go down by one and are never below 8; if
\* no size fits the search stops after the attempt at size 8, warns, and
\* draws that last attempt.
C5_FloorIsEight ==
    /\ LoadedDescends
    /\ \A i \in 1..Len(loaded) : loaded[i] >= MIN_FONT_SIZE
    /\ GaveUp =>
           /\ loaded[Len(loaded)] = MIN_FONT_SIZE
           /\ WarnBox \in Range(out)
           /\ DrawUsesAttempt(MIN_FONT_SIZE)

\* C5 amended: the sizes loaded go down by one from the starting size and
\* are never below the smaller of 8 and the starting size; if no size fits
\* the search stops after the attempt at that smallest size, warns, and
\* draws that last attempt.
C5_FloorIsEightOrStart ==
    /\ LoadedDescends
    /\ \A i \in 1..Len(loaded) :
           loaded[i] >= Min(MIN_FONT_SIZE, self.starting_font_size)
    /\ GaveUp =>
           /\ loaded[Len(loaded)] = Min(MIN_FONT_SIZE, self.starting_font_size)
           /\ WarnBox \in Range(out)
           /\ DrawUsesAttempt(loaded[Len(loaded)])

C5_Witness ==
    /\ pc = "done"
    /\ WarnBox \in Range(out)
    /\ Len(loaded) > 1
    /\ font_size = MIN_FONT_SIZE - 1

\* C6 as stated, for the caps where max_font_size - 8 counts something (8
\* and above): a render call ends after at most max_font_size - 8 passes of
\* the while loop.
C6_AtMostCapMinusEight ==
    (Stopped /\ self.starting_font_size >= MIN_FONT_SIZE) =>
        Len(loaded) <= self.starting_font_size - MIN_FONT_SIZE

\* C6 amended: a render call performs at most max_font_size - 7 passes of the
\* while loop, and at most one when max_font_size is below 8; the loop is
\* left once that many passes are made.
C6_AtMostCapMinusSeven ==
    LET most == Max(1, self.starting_font_size - MIN_FONT_SIZE + 1)
    IN  /\ Len(loaded) <= most
        /\ Len(loaded) = most => Stopped

C6_Witness ==
    /\ pc = "done"
    /\ self.starting_font_size > MIN_FONT_SIZE
    /\ Len(loaded) = self.starting_font_size - MIN_FONT_SIZE + 1

\* the 0-based offsets at which a whitespace-delimited word of text starts
WordStarts(text) ==
    {i \in 0..(Len(text) - 1) :
        /\ ~IsSpace(At(text, i))
        /\ i = 0 \/ IsSpace(At(text, i - 1))}

\* the offset just past the word starting at i
WordEnd(text, i) ==
    CHOOSE j \in (i + 1)..Len(text) :
        /\ \A m \in i..(j - 1) : ~IsSpace(At(text, m))
        /\ j = Len(text) \/ IsSpace(At(text, j))

\* the starts of the words that are keys of the embedding map
TokenStarts ==
    {i \in WordStarts(self.text) :
        Slice(self.text, i, WordEnd(self.text, i)) \in DOMAIN self.embedding_map}

\* the k-th smallest element of a set of numbers
RECURSIVE Nth(_, _)
Nth(S, k) ==
    LET m == CHOOSE x \in S : \A y \in S : x <= y
    IN  IF k = 1 THEN m ELSE Nth(S \ {m}, k - 1)

\* C7: the number of embed records, and of embed placements, equals the
\* number of whitespace-delimited words of the text that are keys of the
\* embedding map.
C7_EmbedCountPreserved ==
    (Laid /\ self.kind = "embedded") =>
        /\ Len(embeddings) = Cardinality(TokenStarts)
        /\ Len(embeds) = Cardinality(TokenStarts)

C7_Witness ==
    /\ Laid
    /\ self.kind = "embedded"
    /\ Len(embeds) >= 1
    /\ Cardinality(WordStarts(self.text)) > Cardinality(TokenStarts)

\* C8 as stated: 0 for TOP, (placement height - box height) / 2 truncated
\* for MIDDLE, placement height - box height for BOTTOM, the box height
\* being the height of the measured box.
C8_VOffsetFromBoxHeight ==
    pc = "done" =>
        LET d == self.placement.h - (text_box[4] - text_box[2])
        IN  CASE self.v_alignment = "TOP" -> v_offset = 0
              [] self.v_alignment = "BOTTOM" -> v_offset = d
              [] self.v_alignment = "MIDDLE" ->
                   \/ d >= 0 /\ 2 * v_offset <= d /\ d < 2 * v_offset + 2
                   \/ d < 0 /\ 2 * v_offset - 2 < d /\ d <= 2 * v_offset

\* C8 amended: 0 for TOP, (placement height - y1) / 2 truncated toward zero
\* for MIDDLE, placement height - y1 for BOTTOM, y1 being the bottom
\* coordinate of the measured box (x0, y0, x1, y1).
C8_VOffsetFromBoxBottom ==
    pc = "done" =>
        LET d == self.placement.h - text_box[4]
        IN  CASE self.v_alignment = "TOP" -> v_offset = 0
              [] self.v_alignment = "BOTTOM" -> v_offset = d
              [] self.v_alignment = "MIDDLE" ->
                   \/ d >= 0 /\ 2 * v_offset <= d /\ d < 2 * v_offset + 2
                   \/ d < 0 /\ 2 * v_offset - 2 < d /\ d <= 2 * v_offset

C8_Witness ==
    /\ pc = "done"
    /\ self.v_alignment = "MIDDLE"
    /\ text_box[2] > 0
    /\ self.placement.h - text_box[4] < 0
    /\ (self.placement.h - text_box[4]) % 2 = 1

\* the token of the k-th record and the length of its padding string
TokenStart(k) == Nth(TokenStarts, k)
TokenEnd(k) == WordEnd(self.text, TokenStart(k))
PaddingLen(k) == Len(GetPaddingStr(embeddings[k][2], font).padding)

\* the length drift of the replacement of the k-th token
Drift(k) == PaddingLen(k) - (TokenEnd(k) - TokenStart(k))

\* _pad_embeddings has returned (PadSpec): embeddings holds the records in
\* the order of the returned list
Padded == pc = "padded"

\* C9: in the pair returned by _pad_embeddings there is one record per
\* token, the k-th record belongs to the k-th token of the text, its offset
\* is the token's offset moved by the drift of all earlier replacements and
\* is where the token's padding run begins in the padded text, the records
\* are in ascending offset order as returned, and the text outside the
\* replaced tokens is copied through unchanged.
C9_OffsetsTrackPaddedText ==
    Padded =>
        LET n == Len(embeddings)
        IN  /\ n = Cardinality(TokenStarts)
            /\ \A k \in 1..n :
                 embeddings[k][2]
                   = self.embedding_map[Slice(self.text, TokenStart(k),
                                              TokenEnd(k))]
            /\ \A k \in 1..(n - 1) : embeddings[k][1] < embeddings[k + 1][1]
            /\ \A k \in 1..n :
                 Slice(padded_text, embeddings[k][1],
                       embeddings[k][1] + PaddingLen(k)) = Spaces(PaddingLen(k))
            /\ IF n = 0 THEN padded_text = self.text
               ELSE /\ embeddings[1][1] = TokenStart(1)
                    /\ \A k \in 1..(n - 1) :
                         embeddings[k + 1][1] - TokenStart(k + 1)
                           = embeddings[k][1] - TokenStart(k) + Drift(k)
                    /\ Slice(padded_text, 0, embeddings[1][1])
                         = Slice(self.text, 0, TokenStart(1))
                    /\ \A k \in 1..(n - 1) :
                         Slice(padded_text, embeddings[k][1] + PaddingLen(k),
                               embeddings[k + 1][1])
                           = Slice(self.text, TokenEnd(k), TokenStart(k + 1))
                    /\ Slice(padded_text, embeddings[n][1] + PaddingLen(n),
                             Len(padded_text))
                         = Slice(self.text, TokenEnd(n), Len(self.text))
                    /\ Len(padded_text) - (embeddings[n][1] + PaddingLen(n))
                         = Len(self.text) - TokenEnd(n)

\* three tokens of two different images, each replacement changing the
\* length, so the third offset carries the drift of two earlier replacements
C9_Witness ==
    /\ Padded
    /\ Len(embeddings) = 3
    /\ embeddings[1][2] # embeddings[2][2]
    /\ Drift(1) > 0
    /\ Drift(2) > 0
    /\ Drift(1) # Drift(2)
    /\ embeddings[3][1] = TokenStart(3) + Drift(1) + Drift(2)

\* C10: the whole padding run of every embed lies inside the one line that
\* contains the embed's offset.
C10_PaddingOnOneLine ==
    (Laid /\ self.kind = "embedded") =>
        \A k \in 1..Len(embeddings) :
            LineOf(embeddings[k][1])
              = LineOf(embeddings[k][1] + PaddingLen(k) - 1)

====
